---- MODULE Spec2Model ----
(***************************************************************************)
(* Lambo: a score-based load-balancing proxy.                              *)
(*                                                                         *)
(* The model follows pkg/manager/manager.go (Endpoint, EndpointPool,       *)
(* UpdateScore, HealthChecker, checkBackendHealth, Select) and             *)
(* pkg/proxy/proxy.go (ProxyHandler).  Every goroutine of the program is a *)
(* process of the model: one per inbound request, the health-checker loop, *)
(* and one probe goroutine per endpoint and cycle.  A step of a process is *)
(* the code between two lock operations or blocking calls.                 *)
(*                                                                         *)
(* Numbers.  Score is a float64 in the code; here it is an exact fraction  *)
(* Score / ScoreScale.  ewmaAlpha is held in tenths.  ScoreScale is chosen *)
(* so that every EWMA update the model can reach divides exactly.  The     *)
(* latency multiplier 1/log2(latency+2) is held in thousandths.            *)
(***************************************************************************)
EXTENDS Integers, Sequences, FiniteSets, TLC

----------------------------------------------------------------------------
(* Bounds of the model *)

\* largest configured health_check_failures
MaxThreshold == 3
\* resolution of the random draw: rand.Float64() is k / DrawGrid, k < DrawGrid
DrawGrid == 4

\* The runs the model explores: how many addresses cfg.BackendAddresses
\* holds and how many requests arrive.  Two endpoints with one request
\* cover Select against concurrent probes; one endpoint with two requests
\* covers concurrent UpdateScore calls and probes on one record.
Loads == {[backends |-> 2, requests |-> 1], [backends |-> 1, requests |-> 2]}
\* the most requests, hence the most UpdateScore calls, of a run
MaxRequests ==
    CHOOSE n \in {l.requests : l \in Loads} : \A l \in Loads : l.requests <= n

\* the most endpoints of a run
MaxBackends ==
    CHOOSE n \in {l.backends : l \in Loads} : \A l \in Loads : l.backends <= n

\* ConsecutiveFails is an unbounded int in the code: a probe fails only
\* while the counter is below the threshold plus ExtraFails
ExtraFails == 1

\* request durations, duration.Milliseconds()
Durations == {0, 62}
\* ewma_alpha in tenths: 0.1 (the default) and 1.0
Alphas == {1, 10}

RECURSIVE Pow10(_)
Pow10(n) == IF n = 0 THEN 1 ELSE 10 * Pow10(n - 1)

\* Scores are fractions Score / ScoreScale.  One update multiplies the
\* denominator by at most 10, the initial 1/2 and the floor 1/100 divide
\* 10 * 10, and a score is floored only by an update.
ScoreScale == Pow10(MaxRequests + 1)

----------------------------------------------------------------------------
(* Program state *)

VARIABLES
    cfg,      \* config.Config: EWMAAlpha (tenths), HealthCheckFailures
    ep,       \* EndpointPool.Endpoints: the Endpoint records
    mutex,    \* Endpoint.Mutex: its holder
    rlock,    \* EndpointPool.Mutex: number of read locks held
    hc,       \* HealthChecker: position of the loop
    probe,    \* checkBackendHealth goroutines, one per endpoint
    req,      \* ProxyHandler invocations, one per request
    streak    \* history: failed probes applied since the last successful one

vars == <<cfg, ep, mutex, rlock, hc, probe, req, streak>>

\* the indices of p.Endpoints, and the requests of the run
Endpoints == DOMAIN ep
Requests == DOMAIN req

NoHolder == <<"none", 0>>
ReqId(r) == <<"req", r>>
ProbeId(e) == <<"probe", e>>

\* manager.go NewEndpoint
BaselineScore == ScoreScale \div 2
BaselineLatency == 50
NewEndpoint ==
    [IsHealthy |-> TRUE, Score |-> BaselineScore,
     LatencyMs |-> BaselineLatency, ConsecutiveFails |-> 0]

----------------------------------------------------------------------------
(* Pure functions of the program *)

\* an average with the two weights exchanged
EWMASwapped(score, success, ewmaAlpha) ==
    ((10 - ewmaAlpha) * (IF success THEN ScoreScale ELSE 0) + ewmaAlpha * score) \div 10

\* an average in which a success counts as 0.5
EWMAHalfCredit(score, success, ewmaAlpha) ==
    (ewmaAlpha * (IF success THEN ScoreScale \div 2 ELSE 0) + (10 - ewmaAlpha) * score) \div 10

\* S_new = alpha * P_i + (1 - alpha) * S_old, alpha in tenths
EWMA(score, success, ewmaAlpha) ==
    (ewmaAlpha * (IF success THEN ScoreScale ELSE 0) + (10 - ewmaAlpha) * score) \div 10

\* a floor below every average: no floor
ScoreFloorNone == -ScoreScale

\* 0.01
ScoreFloor == ScoreScale \div 100

\* a clamp that forgets the floor
ClampScoreNoFloor(s) == IF s > ScoreScale THEN ScoreScale ELSE s

ClampScore(s) ==
    IF s < ScoreFloor THEN ScoreFloor
    ELSE IF s > ScoreScale THEN ScoreScale
    ELSE s

\* an UpdateScore that marks the endpoint unhealthy on a failed request
UpdateScoreFlips(e, success, duration, ewmaAlpha) ==
    [e EXCEPT !.LatencyMs = duration,
              !.Score = ClampScore(EWMA(e.Score, success, ewmaAlpha)),
              !.IsHealthy = IF success THEN @ ELSE FALSE]

\* an UpdateScore that averages the latency with the one before
UpdateScoreAveragesLatency(e, success, duration, ewmaAlpha) ==
    [e EXCEPT !.LatencyMs = (@ + duration) \div 2,
              !.Score = ClampScore(EWMA(e.Score, success, ewmaAlpha))]

\* Endpoint.UpdateScore on the record e
UpdateScore(e, success, duration, ewmaAlpha) ==
    [e EXCEPT !.LatencyMs = duration,
              !.Score = ClampScore(EWMA(e.Score, success, ewmaAlpha))]

\* a response of a backend: a transport error, or a status code
Resp(err, code) == [err |-> err, StatusCode |-> code]

\* a probe that fails on a transport error or a server error only
ProbeFailedOnServerError(res) == res.err \/ res.StatusCode >= 500

\* checkBackendHealth: err != nil || resp.StatusCode != http.StatusOK
ProbeFailed(res) == res.err \/ res.StatusCode # 200

\* a probe application that compares the counter with > instead of >=
ApplyProbeLate(e, res, failures) ==
    IF ProbeFailed(res)
    THEN LET n == e.ConsecutiveFails + 1
         IN  [e EXCEPT !.ConsecutiveFails = n,
                       !.IsHealthy = IF n > failures /\ e.IsHealthy
                                     THEN FALSE ELSE e.IsHealthy]
    ELSE [e EXCEPT !.Score = IF ~e.IsHealthy THEN BaselineScore ELSE e.Score,
                   !.IsHealthy = TRUE,
                   !.ConsecutiveFails = 0]

\* a probe application that compares the counter before incrementing it
ApplyProbeEarly(e, res, failures) ==
    IF ProbeFailed(res)
    THEN LET n == e.ConsecutiveFails + 1
         IN  [e EXCEPT !.ConsecutiveFails = n,
                       !.IsHealthy = IF n + 1 >= failures /\ e.IsHealthy
                                     THEN FALSE ELSE e.IsHealthy]
    ELSE [e EXCEPT !.Score = IF ~e.IsHealthy THEN BaselineScore ELSE e.Score,
                   !.IsHealthy = TRUE,
                   !.ConsecutiveFails = 0]

\* a probe application that keeps the score on recovery
ApplyProbeNoReset(e, res, failures) ==
    IF ProbeFailed(res)
    THEN LET n == e.ConsecutiveFails + 1
         IN  [e EXCEPT !.ConsecutiveFails = n,
                       !.IsHealthy = IF n >= failures /\ e.IsHealthy
                                     THEN FALSE ELSE e.IsHealthy]
    ELSE [e EXCEPT !.IsHealthy = TRUE, !.ConsecutiveFails = 0]

\* a probe application that stops counting once the endpoint is unhealthy
ApplyProbeSaturates(e, res, failures) ==
    IF ProbeFailed(res)
    THEN LET n == e.ConsecutiveFails + 1
         IN  [e EXCEPT !.ConsecutiveFails = IF e.IsHealthy THEN n ELSE @,
                       !.IsHealthy = IF n >= failures /\ e.IsHealthy
                                     THEN FALSE ELSE e.IsHealthy]
    ELSE [e EXCEPT !.Score = IF ~e.IsHealthy THEN BaselineScore ELSE e.Score,
                   !.IsHealthy = TRUE,
                   !.ConsecutiveFails = 0]

\* a probe application whose success leaves the counter as it is
ApplyProbeKeepsCount(e, res, failures) ==
    IF ProbeFailed(res)
    THEN LET n == e.ConsecutiveFails + 1
         IN  [e EXCEPT !.ConsecutiveFails = n,
                       !.IsHealthy = IF n >= failures /\ e.IsHealthy
                                     THEN FALSE ELSE e.IsHealthy]
    ELSE [e EXCEPT !.Score = IF ~e.IsHealthy THEN BaselineScore ELSE e.Score,
                   !.IsHealthy = TRUE]

\* a probe application that puts the score back to 0.5 on every success
ApplyProbeResetsAlways(e, res, failures) ==
    IF ProbeFailed(res)
    THEN LET n == e.ConsecutiveFails + 1
         IN  [e EXCEPT !.ConsecutiveFails = n,
                       !.IsHealthy = IF n >= failures /\ e.IsHealthy
                                     THEN FALSE ELSE e.IsHealthy]
    ELSE [e EXCEPT !.Score = BaselineScore,
                   !.IsHealthy = TRUE,
                   !.ConsecutiveFails = 0]

\* checkBackendHealth on the record e, from the lock to the unlock
ApplyProbe(e, res, failures) ==
    IF ProbeFailed(res)
    THEN LET n == e.ConsecutiveFails + 1
         IN  [e EXCEPT !.ConsecutiveFails = n,
                       !.IsHealthy = IF n >= failures /\ e.IsHealthy
                                     THEN FALSE ELSE e.IsHealthy]
    ELSE [e EXCEPT !.Score = IF ~e.IsHealthy THEN BaselineScore ELSE e.Score,
                   !.IsHealthy = TRUE,
                   !.ConsecutiveFails = 0]

\* a handler that counts a client error (4xx) against the backend
ForwardSuccessBelow400(res) == ~res.err /\ res.StatusCode < 400

\* ProxyHandler: ModifyResponse reports resp.StatusCode < 500,
\* ErrorHandler reports false
ForwardSuccess(res) == ~res.err /\ res.StatusCode < 500

\* math.Log2 in thousandths, on the arguments latency + 2 the model uses
Log2Milli(x) ==
    CASE x = 2 -> 1000
      [] x = 3 -> 1585
      [] x = 4 -> 2000
      [] x = 8 -> 3000
      [] x = 52 -> 5700
      [] x = 64 -> 6000

\* Select: 1.0 / math.Log2(latency + 2) in thousandths (rounded), after
\* latency < 1.0 is raised to 1.0
LatencyMultiplier(latency) ==
    LET lat == IF latency < 1 THEN 1 ELSE latency
        l == Log2Milli(lat + 2)
    IN  (1000000 + l \div 2) \div l

\* Select: W_eff = S * Multiplier, in units of 1 / (1000 * ScoreScale)
Weight(score, latency) == score * LatencyMultiplier(latency)

RECURSIVE RunningWeight(_, _)
RunningWeight(weights, i) ==
    IF i = 0 THEN 0 ELSE RunningWeight(weights, i - 1) + weights[i]

\* a walk that stops at the first running weight strictly above r
DrawStrictlyAbove(weights, k) ==
    LET total == RunningWeight(weights, Len(weights))
        hits == {i \in 1..Len(weights) :
                    k * total < DrawGrid * RunningWeight(weights, i)}
    IN  IF hits # {}
        THEN CHOOSE i \in hits : \A j \in hits : i <= j
        ELSE Len(weights)

\* Select, step 3: r = (k / DrawGrid) * totalWeight; the first index whose
\* running weight is >= r, and the last candidate when there is none
Draw(weights, k) ==
    LET total == RunningWeight(weights, Len(weights))
        hits == {i \in 1..Len(weights) :
                    k * total <= DrawGrid * RunningWeight(weights, i)}
    IN  IF hits # {}
        THEN CHOOSE i \in hits : \A j \in hits : i <= j
        ELSE Len(weights)

HealthySetOf(pool) == {e \in Endpoints : pool[e].IsHealthy}
HealthySet == HealthySetOf(ep)

----------------------------------------------------------------------------
(* Initial state: main() builds the pool from cfg.BackendAddresses *)

\* the locals of one ProxyHandler invocation (draw is the k of Select's
\* r = (k / DrawGrid) * totalWeight; res is what the forwarding handed to
\* ModifyResponse or ErrorHandler), and three history fields: h0, the set
\* of healthy endpoints when its Select call started; fixed, no IsHealthy
\* flag changed since; hsets, every set of healthy endpoints there was at
\* some instant of the filter step
NoResp == Resp(FALSE, 0)

NewRequest ==
    [pc |-> "new", i |-> 0, candidates |-> <<>>, weights |-> <<>>, draw |-> 0,
     target |-> 0, res |-> NoResp, success |-> FALSE, duration |-> 0,
     h0 |-> {}, fixed |-> FALSE, hsets |-> {}]

NewProbe == [pc |-> "idle", res |-> NoResp]

Init ==
    \E load \in Loads :
        /\ cfg \in [EWMAAlpha : Alphas, HealthCheckFailures : 1..MaxThreshold]
        /\ ep = [e \in 1..load.backends |-> NewEndpoint]
        /\ mutex = [e \in 1..load.backends |-> NoHolder]
        /\ rlock = 0
        /\ hc = "loop"
        /\ probe = [e \in 1..load.backends |-> NewProbe]
        /\ req = [r \in 1..load.requests |-> NewRequest]
        /\ streak = [e \in 1..load.backends |-> 0]

----------------------------------------------------------------------------
(* sync.Mutex *)

\* a Lock() that never waits
MutexFreeAlways(e) == TRUE

\* Endpoint.Mutex.Lock() returns only when nobody holds the mutex
MutexFree(e) == mutex[e] = NoHolder

Lock(e, who) == mutex' = [mutex EXCEPT ![e] = who]
\* an Unlock() that leaves the mutex held
UnlockSkipped(e) == UNCHANGED mutex
Unlock(e) == mutex' = [mutex EXCEPT ![e] = NoHolder]

\* the positions of a request inside EndpointPool.Select
SelectPcs == {"filter", "filterCS", "weigh", "weighCS", "draw"}
\* the positions inside step 1 of Select, the filter
FilterPcs == {"filter", "filterCS"}

----------------------------------------------------------------------------
(* Request layer: ProxyHandler and EndpointPool.Select *)

\* ProxyHandler is entered and calls p.Select(): p.Mutex.RLock()
SelectStart(r) ==
    /\ req[r].pc = "new"
    /\ r > 1 => req[r - 1].pc # "new"
    /\ req' = [req EXCEPT ![r].pc = "filter", ![r].i = 1,
                          ![r].h0 = HealthySet, ![r].fixed = TRUE,
                          ![r].hsets = {HealthySet}]
    /\ rlock' = rlock + 1
    /\ UNCHANGED <<cfg, ep, mutex, hc, probe, streak>>

\* Select, step 1: ep.Mutex.Lock()
FilterLock(r) ==
    /\ req[r].pc = "filter"
    /\ MutexFree(req[r].i)
    /\ Lock(req[r].i, ReqId(r))
    /\ req' = [req EXCEPT ![r].pc = "filterCS"]
    /\ UNCHANGED <<cfg, ep, rlock, hc, probe, streak>>

\* a filter that keeps every endpoint
FilterAppendAll(candidates, i, e) == Append(candidates, i)

\* a filter that keeps the endpoints marked unhealthy
FilterAppendUnhealthy(candidates, i, e) ==
    IF e.IsHealthy THEN candidates ELSE Append(candidates, i)

\* Select, step 1: if ep.IsHealthy { candidates = append(candidates, ep) }
FilterAppend(candidates, i, e) ==
    IF e.IsHealthy THEN Append(candidates, i) ELSE candidates

\* Select, step 1: the read of ep.IsHealthy, the append, ep.Mutex.Unlock(),
\* next endpoint; after the last one, return nil when there is no candidate
\* (ProxyHandler then answers 503 Service Unavailable)
FilterUnlock(r) ==
    LET q == req[r]
        cands == FilterAppend(q.candidates, q.i, ep[q.i])
    IN  /\ q.pc = "filterCS"
        /\ Unlock(q.i)
        /\ IF q.i < Cardinality(Endpoints)
           THEN /\ req' = [req EXCEPT ![r].pc = "filter", ![r].i = q.i + 1,
                                      ![r].candidates = cands]
                /\ rlock' = rlock
           ELSE IF cands = <<>>
           THEN /\ req' = [req EXCEPT ![r] =
                              [NewRequest EXCEPT
                                  !.pc = "unavailable",
                                  !.h0 = IF q.fixed THEN q.h0 ELSE {},
                                  !.fixed = q.fixed]]
                /\ rlock' = rlock - 1
           ELSE /\ req' = [req EXCEPT ![r].pc = "weigh", ![r].i = 1,
                                      ![r].candidates = cands,
                                      ![r].hsets = {}]
                /\ rlock' = rlock
        /\ UNCHANGED <<cfg, ep, hc, probe, streak>>

\* Select, step 2: ep.Mutex.Lock()
WeighLock(r) ==
    LET e == req[r].candidates[req[r].i]
    IN  /\ req[r].pc = "weigh"
        /\ MutexFree(e)
        /\ Lock(e, ReqId(r))
        /\ req' = [req EXCEPT ![r].pc = "weighCS"]
        /\ UNCHANGED <<cfg, ep, rlock, hc, probe, streak>>

\* Select, step 2: the reads of ep.Score and ep.LatencyMs, ep.Mutex.Unlock(),
\* the weight, next candidate
WeighUnlock(r) ==
    LET q == req[r]
        e == q.candidates[q.i]
        w == Append(q.weights, Weight(ep[e].Score, ep[e].LatencyMs))
    IN  /\ q.pc = "weighCS"
        /\ Unlock(e)
        /\ req' = [req EXCEPT
                     ![r].pc = IF q.i < Len(q.candidates) THEN "weigh" ELSE "draw",
                     ![r].i = q.i + 1,
                     ![r].weights = w]
        /\ UNCHANGED <<cfg, ep, rlock, hc, probe, streak>>

\* Select, step 3: the random draw, the walk, p.Mutex.RUnlock(), return
SelectDraw(r, k) ==
    LET q == req[r]
    IN  /\ q.pc = "draw"
        /\ req' = [req EXCEPT ![r] =
                      [NewRequest EXCEPT
                          !.pc = "route",
                          !.draw = k,
                          !.target = q.candidates[Draw(q.weights, k)],
                          !.h0 = IF q.fixed THEN q.h0 ELSE {},
                          !.fixed = q.fixed]]
        /\ rlock' = rlock - 1
        /\ UNCHANGED <<cfg, ep, mutex, hc, probe, streak>>

\* ProxyHandler: targetEndpoint.Mutex.Lock()
RouteLock(r) ==
    LET e == req[r].target
    IN  /\ req[r].pc = "route"
        /\ MutexFree(e)
        /\ Lock(e, ReqId(r))
        /\ req' = [req EXCEPT ![r].pc = "routeCS", ![r].draw = 0,
                              ![r].h0 = {}, ![r].fixed = FALSE]
        /\ UNCHANGED <<cfg, ep, rlock, hc, probe, streak>>

\* a ProxyHandler that defers the Unlock() to its return
RouteUnlockDeferred(r) ==
    /\ req[r].pc = "routeCS"
    /\ req' = [req EXCEPT ![r].pc = "forward"]
    /\ UNCHANGED <<cfg, ep, mutex, rlock, hc, probe, streak>>

\* ProxyHandler: the read of the score, targetEndpoint.Mutex.Unlock(), the
\* log line, and proxy.ServeHTTP sends the request to the backend
RouteUnlock(r) ==
    /\ req[r].pc = "routeCS"
    /\ Unlock(req[r].target)
    /\ req' = [req EXCEPT ![r].pc = "forward"]
    /\ UNCHANGED <<cfg, ep, rlock, hc, probe, streak>>

\* the backend answers, or the transport fails: ModifyResponse or
\* ErrorHandler measure the duration and call UpdateScore, which takes
\* e.Mutex.Lock()
UpdateScoreLock(r, res, d) ==
    LET e == req[r].target
    IN  /\ req[r].pc = "forward"
        /\ MutexFree(e)
        /\ Lock(e, ReqId(r))
        /\ req' = [req EXCEPT ![r].pc = "updateCS",
                              ![r].res = res,
                              ![r].success = ForwardSuccess(res),
                              ![r].duration = d]
        /\ UNCHANGED <<cfg, ep, rlock, hc, probe, streak>>

\* a handler whose forwarding reports a second outcome after the first
UpdateScoreUnlockRepeats(r) ==
    /\ req[r].pc = "updateCS"
    /\ ep' = [ep EXCEPT ![req[r].target] =
                 UpdateScore(@, req[r].success, req[r].duration, cfg.EWMAAlpha)]
    /\ Unlock(req[r].target)
    /\ req' = [req EXCEPT ![r].pc = "forward", ![r].res = NoResp]
    /\ UNCHANGED <<cfg, rlock, hc, probe, streak>>

\* UpdateScore: the latency, the EWMA, the clamp, e.Mutex.Unlock()
UpdateScoreUnlock(r) ==
    LET q == req[r]
    IN  /\ q.pc = "updateCS"
        /\ ep' = [ep EXCEPT ![q.target] =
                     UpdateScore(@, q.success, q.duration, cfg.EWMAAlpha)]
        /\ Unlock(q.target)
        /\ req' = [req EXCEPT ![r] = [NewRequest EXCEPT !.pc = "done"]]
        /\ UNCHANGED <<cfg, rlock, hc, probe, streak>>

----------------------------------------------------------------------------
(* Management layer: HealthChecker and checkBackendHealth *)

\* a monitor that probes only the endpoints marked healthy
HealthCheckerStartHealthyOnly ==
    /\ hc = "loop"
    /\ hc' = "wait"
    /\ probe' = [e \in Endpoints |->
                    [NewProbe EXCEPT !.pc = IF ep[e].IsHealthy THEN "get" ELSE "done"]]
    /\ UNCHANGED <<cfg, ep, mutex, rlock, req, streak>>

\* HealthChecker: read p.Endpoints under RLock, start one goroutine per
\* endpoint, wg.Wait()
HealthCheckerStart ==
    /\ hc = "loop"
    /\ hc' = "wait"
    /\ probe' = [e \in Endpoints |-> [NewProbe EXCEPT !.pc = "get"]]
    /\ UNCHANGED <<cfg, ep, mutex, rlock, req, streak>>

\* checkBackendHealth: client.Get(healthURL) returns a response or an error
\* (its timeout included), then ep.Mutex.Lock()
ProbeLock(e, res) ==
    /\ probe[e].pc = "get"
    /\ ProbeFailed(res) =>
          ep[e].ConsecutiveFails < cfg.HealthCheckFailures + ExtraFails
    /\ MutexFree(e)
    /\ Lock(e, ProbeId(e))
    /\ probe' = [probe EXCEPT ![e].pc = "apply", ![e].res = res]
    /\ UNCHANGED <<cfg, ep, rlock, hc, req, streak>>

\* a checkBackendHealth that returns without ep.Mutex.Unlock()
ProbeApplyNoUnlock(e) ==
    /\ probe[e].pc = "apply"
    /\ ep' = [ep EXCEPT ![e] = ApplyProbe(@, probe[e].res, cfg.HealthCheckFailures)]
    /\ probe' = [probe EXCEPT ![e] = [NewProbe EXCEPT !.pc = "done"]]
    /\ streak' = [streak EXCEPT ![e] =
                     IF ProbeFailed(probe[e].res) THEN streak[e] + 1 ELSE 0]
    /\ UNCHANGED <<cfg, mutex, rlock, hc, req>>

\* checkBackendHealth: the failure count or the recovery, the deferred
\* ep.Mutex.Unlock(), wg.Done()
ProbeApply(e) ==
    LET p == probe[e]
        pool == [ep EXCEPT ![e] = ApplyProbe(@, p.res, cfg.HealthCheckFailures)]
    IN  /\ p.pc = "apply"
        /\ ep' = pool
        /\ Unlock(e)
        /\ probe' = [probe EXCEPT ![e] = [NewProbe EXCEPT !.pc = "done"]]
        /\ streak' = [streak EXCEPT ![e] =
                         IF ProbeFailed(p.res) THEN streak[e] + 1 ELSE 0]
        /\ req' = [r \in Requests |->
                     IF req[r].pc \in SelectPcs /\ HealthySetOf(pool) # HealthySet
                     THEN [req[r] EXCEPT
                             !.fixed = FALSE,
                             !.hsets = IF req[r].pc \in FilterPcs
                                       THEN @ \cup {HealthySetOf(pool)} ELSE @]
                     ELSE req[r]]
        /\ UNCHANGED <<cfg, rlock, hc>>

\* a wg.Wait() that returns as soon as one probe of the cycle is done
HealthCheckerWaitAny ==
    /\ hc = "wait"
    /\ \E e \in Endpoints : probe[e].pc = "done"
    /\ hc' = "sleep"
    /\ probe' = [e \in Endpoints |-> NewProbe]
    /\ UNCHANGED <<cfg, ep, mutex, rlock, req, streak>>

\* HealthChecker: wg.Wait() returns when every probe of the cycle is done
HealthCheckerWait ==
    /\ hc = "wait"
    /\ \A e \in Endpoints : probe[e].pc = "done"
    /\ hc' = "sleep"
    /\ probe' = [e \in Endpoints |-> NewProbe]
    /\ UNCHANGED <<cfg, ep, mutex, rlock, req, streak>>

\* HealthChecker: time.Sleep(cfg.HealthCheckInterval) returns
HealthCheckerSleep ==
    /\ hc = "sleep"
    /\ hc' = "loop"
    /\ UNCHANGED <<cfg, ep, mutex, rlock, probe, req, streak>>

----------------------------------------------------------------------------

ForwardResponses == {Resp(TRUE, 0)} \cup {Resp(FALSE, c) : c \in {200, 404, 500}}
ProbeResponses == {Resp(TRUE, 0)} \cup {Resp(FALSE, c) : c \in {200, 503}}

Next ==
    \/ \E r \in Requests : SelectStart(r)
    \/ \E r \in Requests : FilterLock(r)
    \/ \E r \in Requests : FilterUnlock(r)
    \/ \E r \in Requests : WeighLock(r)
    \/ \E r \in Requests : WeighUnlock(r)
    \/ \E r \in Requests, k \in 0..(DrawGrid - 1) : SelectDraw(r, k)
    \/ \E r \in Requests : RouteLock(r)
    \/ \E r \in Requests : RouteUnlock(r)
    \/ \E r \in Requests, res \in ForwardResponses, d \in Durations :
          UpdateScoreLock(r, res, d)
    \/ \E r \in Requests : UpdateScoreUnlock(r)
    \/ HealthCheckerStart
    \/ \E e \in Endpoints, res \in ProbeResponses : ProbeLock(e, res)
    \/ \E e \in Endpoints : ProbeApply(e)
    \/ HealthCheckerWait
    \/ HealthCheckerSleep

Spec == Init /\ [][Next]_vars

\* The steps a goroutine of a request takes by itself: every step of
\* ProxyHandler but its start (the client's) and the return of the forwarded
\* request (the backend's)
RequestStep(r) ==
    /\ r \in Requests
    /\ \/ FilterLock(r) \/ FilterUnlock(r)
       \/ WeighLock(r) \/ WeighUnlock(r)
       \/ \E k \in 0..(DrawGrid - 1) : SelectDraw(r, k)
       \/ RouteLock(r) \/ RouteUnlock(r)
       \/ UpdateScoreUnlock(r)

\* client.Get of the probe of endpoint e returns: a response, or an error no
\* later than the client's Timeout
ProbeReturns(e) ==
    e \in Endpoints /\ \E res \in ProbeResponses : ProbeLock(e, res)

ProbeApplies(e) == e \in Endpoints /\ ProbeApply(e)

\* The scheduler runs every goroutine that can take a step, and every GET of
\* a probe returns.  Nothing is assumed of the backends that serve forwarded
\* requests, nor of the clients.
Fairness ==
    /\ WF_vars(HealthCheckerStart)
    /\ WF_vars(HealthCheckerWait)
    /\ WF_vars(HealthCheckerSleep)
    /\ \A e \in 1..MaxBackends : WF_vars(ProbeReturns(e)) /\ WF_vars(ProbeApplies(e))
    /\ \A r \in 1..MaxRequests : WF_vars(RequestStep(r))

FairSpec == Spec /\ Fairness

\* the round trip of the forwarded request of r ends, in a response or in a
\* transport error, and UpdateScore gets the endpoint's mutex
ForwardReturns(r) ==
    /\ r \in Requests
    /\ \E res \in ForwardResponses, d \in Durations : UpdateScoreLock(r, res, d)

\* Fair scheduling of the locks: the monitor as in Fairness; a request's
\* goroutine that waits in Lock() gets the mutex if it is free again and
\* again (sync.Mutex hands a mutex over to the waiter that has waited
\* longest), and the round trip of every forwarded request ends
LockFairness ==
    /\ WF_vars(HealthCheckerStart)
    /\ WF_vars(HealthCheckerWait)
    /\ WF_vars(HealthCheckerSleep)
    /\ \A e \in 1..MaxBackends : WF_vars(ProbeReturns(e)) /\ WF_vars(ProbeApplies(e))
    /\ \A r \in 1..MaxRequests : SF_vars(RequestStep(r) \/ ForwardReturns(r))

LockFairSpec == Spec /\ LockFairness

----------------------------------------------------------------------------
(* Select as a function of the pool: one call on every pool of the sets below *)

\* scores of the pools: 0.01, 0.2, 0.5 and 0.8
SelectScores ==
    {ScoreFloor, ScoreScale \div 5, BaselineScore, (4 * ScoreScale) \div 5}
\* sizes of the pools
SelectBackends == {2, 3}

SelectInit ==
    \E n \in SelectBackends :
        /\ cfg = [EWMAAlpha |-> 1, HealthCheckFailures |-> MaxThreshold]
        /\ \E healthy \in [1..n -> BOOLEAN],
              score \in [1..n -> SelectScores],
              latency \in [1..n -> Durations] :
              /\ ep = [e \in 1..n |->
                          [IsHealthy |-> healthy[e],
                           Score |-> score[e],
                           LatencyMs |-> latency[e],
                           ConsecutiveFails |->
                               IF healthy[e] THEN 0 ELSE cfg.HealthCheckFailures]]
              /\ streak = [e \in 1..n |->
                              IF healthy[e] THEN 0 ELSE cfg.HealthCheckFailures]
        /\ mutex = [e \in 1..n |-> NoHolder]
        /\ rlock = 0
        /\ hc = "loop"
        /\ probe = [e \in 1..n |-> NewProbe]
        /\ req = [r \in 1..1 |-> NewRequest]

SelectNext ==
    \/ \E r \in Requests : SelectStart(r)
    \/ \E r \in Requests : FilterLock(r)
    \/ \E r \in Requests : FilterUnlock(r)
    \/ \E r \in Requests : WeighLock(r)
    \/ \E r \in Requests : WeighUnlock(r)
    \/ \E r \in Requests, k \in 0..(DrawGrid - 1) : SelectDraw(r, k)

SelectSpec == SelectInit /\ [][SelectNext]_vars

----------------------------------------------------------------------------
(* UpdateScore as a function of the score and of alpha: one call on every
   score and every alpha of the sets below *)

\* every alpha of (0, 1] in tenths
ScoreAlphas == 1..10
\* the scores of [0.01, 1.0] in steps of 0.01; their averages are exact
ScoreGrid == {k * ScoreFloor : k \in 1..(ScoreScale \div ScoreFloor)}

ScoreInit ==
    /\ cfg \in [EWMAAlpha : ScoreAlphas, HealthCheckFailures : {MaxThreshold}]
    /\ \E score \in ScoreGrid : ep = <<[NewEndpoint EXCEPT !.Score = score]>>
    /\ mutex = <<NoHolder>>
    /\ rlock = 0
    /\ hc = "loop"
    /\ probe = <<NewProbe>>
    /\ req = <<[NewRequest EXCEPT !.pc = "forward", !.target = 1]>>
    /\ streak = <<0>>

ScoreNext ==
    \/ \E r \in Requests, res \in ForwardResponses, d \in Durations :
          UpdateScoreLock(r, res, d)
    \/ \E r \in Requests : UpdateScoreUnlock(r)

ScoreSpec == ScoreInit /\ [][ScoreNext]_vars

----------------------------------------------------------------------------
(* The monitor on one endpoint, with one request, and every kind of answer
   to a probe *)

\* what client.Get returns: a transport error (timeout included), or a
\* response with a status of each class
ProbeAnswers ==
    {Resp(TRUE, 0)} \cup {Resp(FALSE, c) : c \in {200, 204, 301, 404, 503}}

ProbeInit ==
    /\ cfg \in [EWMAAlpha : {1}, HealthCheckFailures : 1..MaxThreshold]
    /\ ep = <<NewEndpoint>>
    /\ mutex = <<NoHolder>>
    /\ rlock = 0
    /\ hc = "loop"
    /\ probe = <<NewProbe>>
    /\ req = <<NewRequest>>
    /\ streak = <<0>>

ProbeNext ==
    \/ HealthCheckerStart
    \/ \E e \in Endpoints, res \in ProbeAnswers : ProbeLock(e, res)
    \/ \E e \in Endpoints : ProbeApply(e)
    \/ HealthCheckerWait
    \/ HealthCheckerSleep
    \/ \E r \in Requests : RequestStep(r) \/ ForwardReturns(r) \/ SelectStart(r)

ProbeSpec == ProbeInit /\ [][ProbeNext]_vars

----------------------------------------------------------------------------
(* Startup: main() loads the configuration, builds the pool, starts the
   monitor and serves.  cfg is here the configuration as decoded, with its
   backend_addresses; hc is the position of main until the monitor runs *)

\* ewma_alpha as decoded, in tenths: 0, 0.1, 1.1
RawAlphas == {0, 1, 11}
\* health_check_failures as decoded
RawFailures == {0, 1}
\* backend_addresses: a URL with its scheme, a host:port, the empty string
\* and a string with a broken percent-escape
Addresses == {"http://a:8080", "10.0.0.1:8080", "", "%zz"}
MaxAddresses == 2

NilURL == [err |-> TRUE, Scheme |-> "", Host |-> ""]
URL(scheme, host) == [err |-> FALSE, Scheme |-> scheme, Host |-> host]

\* net/url.Parse on the strings NewEndpoint hands to it
Parse(raw) ==
    CASE raw = "http://a:8080" -> URL("http", "a:8080")
      [] raw = "http://10.0.0.1:8080" -> URL("http", "10.0.0.1:8080")
      [] raw = "" -> URL("", "")
      [] raw = "http://" -> URL("http", "")
      \* the first path segment holds a colon, the escape is broken
      [] OTHER -> NilURL

\* NewEndpoint: the URL of the endpoint, NilURL for the nil the fallback
\* url.Parse leaves in u when it fails as well (the scheme is https for an
\* address that ends in :443, none of Addresses does)
EndpointURL(addr) ==
    LET u == Parse(addr)
    IN  IF u.err \/ u.Scheme = ""
        THEN LET v == Parse("http://" \o addr)
             IN  IF v.err THEN Parse("http://" \o addr) ELSE v
        ELSE u

\* Config.Validate, on the fields the model has (proxy_port and
\* health_check_interval are not modelled)
Validate(c) ==
    /\ c.HealthCheckFailures >= 1
    /\ c.EWMAAlpha > 0
    /\ c.EWMAAlpha <= 10
    /\ Len(c.BackendAddresses) # 0

MainInit ==
    /\ cfg \in [EWMAAlpha : RawAlphas,
                HealthCheckFailures : RawFailures,
                BackendAddresses :
                    UNION {[1..n -> Addresses] : n \in 0..MaxAddresses}]
    /\ ep = <<>>
    /\ mutex = <<>>
    /\ rlock = 0
    /\ hc = "config"
    /\ probe = <<>>
    /\ req = <<>>
    /\ streak = <<>>

\* main: config.NewConfig, log.Fatalf when Validate returns an error
LoadConfig ==
    /\ hc = "config"
    /\ hc' = IF Validate(cfg) THEN "populate" ELSE "fatal"
    /\ UNCHANGED <<cfg, ep, mutex, rlock, probe, req, streak>>

\* main: pool.Endpoints = append(pool.Endpoints, NewEndpoint(addr)) for each
\* address; NewEndpoint returns no error, and panics on u.Path when u is nil
Populate ==
    LET n == Len(cfg.BackendAddresses)
    IN  /\ hc = "populate"
        /\ IF \E i \in 1..n : EndpointURL(cfg.BackendAddresses[i]).err
           THEN /\ hc' = "panic"
                /\ UNCHANGED <<ep, mutex, probe, streak>>
           ELSE /\ hc' = "serve"
                /\ ep' = [e \in 1..n |-> NewEndpoint]
                /\ mutex' = [e \in 1..n |-> NoHolder]
                /\ probe' = [e \in 1..n |-> NewProbe]
                /\ streak' = [e \in 1..n |-> 0]
        /\ UNCHANGED <<cfg, rlock, req>>

\* main: go manager.HealthChecker(pool, cfg) and http.ListenAndServe
Serve ==
    /\ hc = "serve"
    /\ hc' = "loop"
    /\ req' = [r \in 1..1 |-> NewRequest]
    /\ UNCHANGED <<cfg, ep, mutex, rlock, probe, streak>>

MainNext ==
    \/ LoadConfig
    \/ Populate
    \/ Serve
    \/ Next

MainSpec == MainInit /\ [][MainNext]_vars

----------------------------------------------------------------------------
(* Steps and positions the properties speak about *)

\* the step that applies the outcome of the probe of endpoint e
ProbeApplied(e) == probe[e].pc = "apply" /\ probe'[e].pc = "done"

\* the step in which UpdateScore of request r writes the record
ScoreUpdated(r) == req[r].pc = "updateCS" /\ req'[r].pc = "done"

\* the step that ends the filter of the Select call of request r
FilterEnded(r) == req[r].pc = "filterCS" /\ req'[r].pc \in {"weigh", "unavailable"}

Range(seq) == {seq[i] : i \in 1..Len(seq)}

\* the endpoint whose mutex request r holds at its position, 0 for none
HeldBy(r) ==
    CASE req[r].pc = "filterCS" -> req[r].i
      [] req[r].pc = "weighCS" -> req[r].candidates[req[r].i]
      [] req[r].pc \in {"routeCS", "updateCS"} -> req[r].target
      [] OTHER -> 0

\* the goroutines that are between Lock() and Unlock() of endpoint e
InCriticalSection(e) ==
    {ReqId(r) : r \in {x \in Requests : HeldBy(x) = e}}
        \cup (IF probe[e].pc = "apply" THEN {ProbeId(e)} ELSE {})

----------------------------------------------------------------------------
(* Properties *)

\* C1: in every reachable state every endpoint's score lies in [0.01, 1.0],
\* under any interleaving of UpdateScore calls and probe applications.
ScoreInRange ==
    \A e \in Endpoints : ScoreFloor <= ep[e].Score /\ ep[e].Score <= ScoreScale

\* a failed request has driven a score down to the floor
ScoreAtFloor ==
    \E e \in Endpoints : ep[e].Score = ScoreFloor /\ ep[e].LatencyMs # BaselineLatency

\* C2: a healthy endpoint becomes unhealthy exactly in the application of the
\* failed probe that completes a run of HealthCheckFailures failed probes
\* since the last successful one (or since construction), never earlier, and
\* a successful probe resets ConsecutiveFails to 0.
UnhealthyExactlyAtThreshold ==
    [][\A e \in Endpoints :
          /\ (ep[e].IsHealthy /\ ~ep'[e].IsHealthy) =>
                /\ ProbeApplied(e) /\ ProbeFailed(probe[e].res)
                /\ streak'[e] = cfg.HealthCheckFailures
          /\ (ep[e].IsHealthy /\ streak'[e] < cfg.HealthCheckFailures) =>
                ep'[e].IsHealthy
          /\ (ep[e].IsHealthy /\ ProbeApplied(e)
                /\ streak'[e] = cfg.HealthCheckFailures) => ~ep'[e].IsHealthy
          /\ (ProbeApplied(e) /\ ~ProbeFailed(probe[e].res)) =>
                ep'[e].ConsecutiveFails = 0 /\ streak'[e] = 0
      ]_vars

\* the third failed probe in a row has made an endpoint unhealthy
UnhealthyAtThirdFailure ==
    \E e \in Endpoints :
        /\ cfg.HealthCheckFailures = 3
        /\ ~ep[e].IsHealthy
        /\ streak[e] = 3
        /\ probe[e].pc = "done"

\* C3: a successful probe applied to an unhealthy endpoint leaves its score
\* at exactly 0.5, whatever the score was before.
RecoveryResetsScore ==
    [][\A e \in Endpoints :
          (ProbeApplied(e) /\ ~ProbeFailed(probe[e].res) /\ ~ep[e].IsHealthy) =>
              ep'[e].Score = BaselineScore /\ ep'[e].IsHealthy
      ]_vars

\* an endpoint whose score a request had changed has recovered: the latency
\* is the request's, the score is back at the baseline
RecoveredAfterRequest ==
    \E e \in Endpoints :
        /\ ep[e].IsHealthy
        /\ ep[e].LatencyMs # BaselineLatency
        /\ ep[e].Score = BaselineScore
        /\ probe[e].pc = "done"

\* C4: when no IsHealthy flag changes during a Select call, the call returns
\* nil if no endpoint is healthy, and the healthy endpoint if there is
\* exactly one, for every draw and every score and latency.
SelectZeroOrOneHealthy ==
    \A r \in Requests :
        (req[r].pc \in {"route", "unavailable"} /\ req[r].fixed) =>
            /\ req[r].h0 = {} => req[r].pc = "unavailable"
            /\ \A e \in Endpoints :
                  req[r].h0 = {e} => req[r].pc = "route" /\ req[r].target = e

\* Select has returned the only healthy endpoint of a pool of two
SelectedOnlyHealthy ==
    \E r \in Requests :
        /\ Cardinality(Endpoints) = 2
        /\ req[r].pc = "route"
        /\ req[r].fixed
        /\ req[r].h0 = {req[r].target}

\* C5: the candidates Select's filter builds are the endpoints that were
\* healthy at one single instant of the filter step.
FilterIsSnapshot ==
    [][\A r \in Requests :
          FilterEnded(r) => Range(req'[r].candidates) \in req[r].hsets
      ]_vars

\* C6: Select returns nil only if at some instant of the call no endpoint
\* was healthy.
NilOnlyIfNoneHealthy ==
    [][\A r \in Requests :
          (FilterEnded(r) /\ req'[r].pc = "unavailable") => {} \in req[r].hsets
      ]_vars

\* C7: UpdateScore changes neither IsHealthy nor ConsecutiveFails, whatever
\* the outcome it reports.
UpdateScoreKeepsHealth ==
    [][\A r \in Requests :
          ScoreUpdated(r) =>
              \A e \in Endpoints :
                  /\ ep'[e].IsHealthy = ep[e].IsHealthy
                  /\ ep'[e].ConsecutiveFails = ep[e].ConsecutiveFails
      ]_vars

\* failed requests have driven the score of an endpoint to the floor, and
\* the endpoint is healthy with no failure counted
HealthyAtFloor ==
    \E e \in Endpoints :
        /\ ep[e].Score = ScoreFloor
        /\ ep[e].IsHealthy
        /\ ep[e].ConsecutiveFails = 0
        /\ streak[e] = 0

\* C8: IsHealthy changes only from true to false in the application of a
\* failed probe that leaves ConsecutiveFails >= HealthCheckFailures, and
\* from false to true in the application of a successful probe.
OnlyTwoTransitions ==
    [][\A e \in Endpoints :
          /\ (ep[e].IsHealthy /\ ~ep'[e].IsHealthy) =>
                /\ ProbeApplied(e) /\ ProbeFailed(probe[e].res)
                /\ ep'[e].ConsecutiveFails >= cfg.HealthCheckFailures
          /\ (~ep[e].IsHealthy /\ ep'[e].IsHealthy) =>
                ProbeApplied(e) /\ ~ProbeFailed(probe[e].res)
      ]_vars

\* with a threshold of 2, the second failed probe has just made an endpoint
\* unhealthy while a request was inside the handler
UnhealthyDuringRequest ==
    \E e \in Endpoints, r \in Requests :
        /\ cfg.HealthCheckFailures = 2
        /\ ~ep[e].IsHealthy
        /\ ep[e].ConsecutiveFails = 2
        /\ probe[e].pc = "done"
        /\ req[r].pc \in SelectPcs \cup {"route", "routeCS", "forward", "updateCS"}

\* C9: at most one goroutine at a time is between Lock() and Unlock() of an
\* endpoint, and it is the holder of the endpoint's mutex: UpdateScore and
\* the probe application on one endpoint never overlap.
MutualExclusion ==
    \A e \in Endpoints :
        /\ Cardinality(InCriticalSection(e)) <= 1
        /\ \A t \in InCriticalSection(e) : mutex[e] = t

\* UpdateScore of one request holds the mutex of an endpoint while the probe
\* of that endpoint and the UpdateScore of another request wait for it
UpdateScoreContended ==
    \E e \in Endpoints, r1, r2 \in Requests :
        /\ r1 # r2
        /\ req[r1].pc = "updateCS" /\ req[r1].target = e
        /\ req[r2].pc = "forward" /\ req[r2].target = e
        /\ probe[e].pc = "get"

\* C10: no endpoint mutex is held while a probe's GET or a forwarded request
\* is outstanding: a held mutex belongs to a goroutine between Lock() and
\* Unlock(), whose Unlock() step waits for nothing.
NoLockAcrossIO ==
    /\ \A e \in Endpoints :
          mutex[e] # NoHolder =>
              /\ mutex[e] \in InCriticalSection(e)
              /\ \/ ENABLED ProbeApply(e)
                 \/ \E r \in Requests :
                       /\ mutex[e] = ReqId(r)
                       /\ \/ ENABLED FilterUnlock(r)
                          \/ ENABLED WeighUnlock(r)
                          \/ ENABLED RouteUnlock(r)
                          \/ ENABLED UpdateScoreUnlock(r)
    /\ \A e \in Endpoints :
          probe[e].pc = "get" => \A x \in Endpoints : mutex[x] # ProbeId(e)
    /\ \A r \in Requests :
          req[r].pc = "forward" => \A x \in Endpoints : mutex[x] # ReqId(r)

\* a probe's GET and a forwarded request are outstanding, and a Select call
\* is at its filter with the mutex it needs free
SelectWhileIOOutstanding ==
    \E e \in Endpoints, r1, r2 \in Requests :
        /\ probe[e].pc = "get"
        /\ req[r1].pc = "forward"
        /\ req[r2].pc = "filter"
        /\ mutex[req[r2].i] = NoHolder

\* C11: a monitor cycle starts one probe for every endpoint, all at once and
\* only when no probe of the cycle before is left; a probe ends only by
\* applying its outcome, the cycle ends only when every probe has; so
\* ConsecutiveFails grows by 1 at most, in a probe application, once per cycle.
OneProbePerCycle ==
    [][/\ \A e \in Endpoints :
             /\ (probe[e].pc # "get" /\ probe'[e].pc = "get") =>
                   /\ hc = "loop" /\ hc' = "wait"
                   /\ \A x \in Endpoints :
                         probe[x].pc = "idle" /\ probe'[x].pc = "get"
             /\ (probe[e].pc = "get" /\ probe'[e].pc # "get") =>
                   probe'[e].pc = "apply"
             /\ (probe[e].pc = "apply" /\ probe'[e].pc # "apply") =>
                   ProbeApplied(e) /\ hc = "wait"
             /\ (probe[e].pc # "idle" /\ probe'[e].pc = "idle") =>
                   \A x \in Endpoints : probe[x].pc = "done"
             /\ ep'[e].ConsecutiveFails > ep[e].ConsecutiveFails =>
                   /\ ProbeApplied(e)
                   /\ ep'[e].ConsecutiveFails = ep[e].ConsecutiveFails + 1
       /\ (hc = "wait" /\ hc' # "wait") =>
             \A e \in Endpoints : probe[e].pc = "done"
      ]_vars

\* in its second cycle the monitor has applied the probe of one endpoint while
\* the probe of the other, which failed in the first cycle, is still out
SecondCycleOneProbeOut ==
    \E e, x \in Endpoints :
        /\ probe[e].pc = "done" /\ ep[e].ConsecutiveFails = 2
        /\ probe[x].pc = "get" /\ ep[x].ConsecutiveFails = 1

\* C12: when every GET of a probe returns and every goroutine that can run
\* does, the monitor never stops, whatever the backends answer and however
\* long forwarded requests hang: every cycle completes, another one starts,
\* and the probe of every endpoint is applied again and again.
MonitorNeverStops ==
    /\ (hc = "wait") ~> (hc = "sleep")
    /\ (hc = "sleep") ~> (hc = "wait")
    /\ \A e \in 1..MaxBackends :
          []<>(e \in Endpoints => probe[e].pc = "apply")

\* a later cycle is under way for an endpoint that is unhealthy and keeps
\* failing, while a forwarded request is outstanding
ProbingFailedEndpointAgain ==
    \E e \in Endpoints, r \in Requests :
        /\ hc = "wait" /\ probe[e].pc = "get"
        /\ ~ep[e].IsHealthy /\ ep[e].ConsecutiveFails >= 2
        /\ req[r].pc = "forward" /\ req[r].target = e

\* C13: a request whose Select returned an endpoint is forwarded to it and
\* reports one outcome, to that endpoint, by one UpdateScore, after which the
\* handler is over; a request whose Select returned nil is over at once: it
\* is not forwarded and changes no endpoint.  Score and latency change by
\* nothing but a request's UpdateScore and a probe application.
OneOutcomePerRequest ==
    [][/\ \A r \in Requests :
             /\ (req[r].pc \in {"unavailable", "done"}) => req'[r] = req[r]
             /\ (req[r].pc # "route" /\ req'[r].pc = "route") =>
                   /\ req[r].pc = "draw"
                   /\ req'[r].target \in Range(req[r].candidates)
             /\ (req[r].pc # "unavailable" /\ req'[r].pc = "unavailable") =>
                   FilterEnded(r) /\ ep' = ep
             /\ (req[r].pc # "forward" /\ req'[r].pc = "forward") =>
                   req[r].pc = "routeCS"
             /\ (req[r].pc \in {"route", "routeCS", "forward"}) =>
                   req'[r].target = req[r].target /\ req'[r].pc # "done"
             /\ (req[r].pc = "updateCS" /\ req'[r] # req[r]) => ScoreUpdated(r)
             /\ ScoreUpdated(r) =>
                   /\ ep'[req[r].target].LatencyMs = req[r].duration
                   /\ ep'[req[r].target].Score =
                         ClampScore(EWMA(ep[req[r].target].Score,
                                         req[r].success, cfg.EWMAAlpha))
                   /\ \A e \in Endpoints \ {req[r].target} : ep'[e] = ep[e]
       /\ \A e \in Endpoints :
             (ep'[e].Score # ep[e].Score \/ ep'[e].LatencyMs # ep[e].LatencyMs) =>
                 \/ ProbeApplied(e)
                 \/ \E r \in Requests : ScoreUpdated(r) /\ req[r].target = e
      ]_vars

\* one request was answered 503 while the endpoint was unhealthy, a later
\* one was forwarded to the endpoint and has reported its outcome
UnavailableThenReported ==
    \E r1, r2 \in Requests, e \in Endpoints :
        /\ req[r1].pc = "unavailable"
        /\ req[r2].pc = "done"
        /\ ep[e].LatencyMs # BaselineLatency

\* C14: UpdateScore leaves score' = clamp(alpha * P + (1 - alpha) * score,
\* 0.01, 1.0), P = 1 on success and 0 on failure; with alpha = 0.1 and a
\* score of 0.5 a success gives exactly 0.55 and a failure exactly 0.45.
UpdateScoreIsEWMA ==
    [][\A r \in Requests :
          ScoreUpdated(r) =>
              LET e == req[r].target
                  \* ten times alpha * P + (1 - alpha) * score
                  x == cfg.EWMAAlpha * (IF req[r].success THEN ScoreScale ELSE 0)
                           + (10 - cfg.EWMAAlpha) * ep[e].Score
                  new == ep'[e].Score
              IN  /\ x < 10 * ScoreFloor => new = ScoreFloor
                  /\ x > 10 * ScoreScale => new = ScoreScale
                  /\ (10 * ScoreFloor <= x /\ x <= 10 * ScoreScale) => 10 * new = x
                  /\ (cfg.EWMAAlpha = 1 /\ 2 * ep[e].Score = ScoreScale) =>
                        100 * new = (IF req[r].success THEN 55 ELSE 45) * ScoreScale
      ]_vars

\* with alpha = 0.1 a request has succeeded on an endpoint at 0.5: 0.55
SuccessFromBaseline ==
    \E e \in Endpoints, r \in Requests :
        /\ cfg.EWMAAlpha = 1
        /\ req[r].pc = "done"
        /\ 100 * ep[e].Score = 55 * ScoreScale

\* the step in which the Select call of request r draws and returns
Drawn(r) == req[r].pc = "draw" /\ req'[r].pc = "route"

\* C15: with weights w_1..w_n and the draw r = (k / DrawGrid) * total, Select
\* returns the candidate of the smallest index whose cumulative weight is
\* >= r, the last candidate if there is no such index: a member of the
\* candidate list in any case, never nil.
DrawReturnsFirstReached ==
    [][\A r \in Requests :
          Drawn(r) =>
              LET w == req[r].weights
                  n == Len(req[r].candidates)
                  total == RunningWeight(w, n)
                  Reached(i) == req'[r].draw * total <= DrawGrid * RunningWeight(w, i)
              IN  /\ n >= 1 /\ Len(w) = n
                  /\ req'[r].target \in Range(req[r].candidates)
                  /\ \E i \in 1..n :
                        /\ req'[r].target = req[r].candidates[i]
                        /\ IF \E j \in 1..n : Reached(j)
                           THEN Reached(i) /\ \A j \in 1..(i - 1) : ~Reached(j)
                           ELSE i = n
      ]_vars

\* of three healthy endpoints Select has returned the second, on a draw
\* above zero
DrewTheSecondOfThree ==
    \E r \in Requests :
        /\ req[r].pc = "route"
        /\ HealthySet = {1, 2, 3}
        /\ req[r].draw > 0
        /\ req[r].target = 2

\* C16: every healthy endpoint has a strictly positive effective weight, and
\* in every Select call every candidate has a draw r in [0, total) on which
\* the walk returns it (r is taken in halves of the unit of the weights:
\* zero for the first candidate, just above the cumulative weight of its
\* predecessor for the others).
HealthyWeightPositive ==
    /\ \A e \in HealthySet : Weight(ep[e].Score, ep[e].LatencyMs) > 0
    /\ \A r \in Requests :
          req[r].pc = "draw" =>
              LET w == req[r].weights
                  total == RunningWeight(w, Len(w))
              IN  \A i \in 1..Len(w) :
                      LET r2 == IF i = 1 THEN 0
                                ELSE 2 * RunningWeight(w, i - 1) + 1
                      IN  /\ w[i] > 0
                          /\ r2 < 2 * total
                          /\ r2 <= 2 * RunningWeight(w, i)
                          /\ \A j \in 1..(i - 1) : 2 * RunningWeight(w, j) < r2

\* a Select call is about to draw among candidates of which one has the
\* score 0.01, down from a failed request, and the latency of that request
DrawWithCandidateAtFloor ==
    \E r \in Requests :
        /\ req[r].pc = "draw"
        /\ \E e \in Range(req[r].candidates) :
              /\ ep[e].IsHealthy
              /\ ep[e].Score = ScoreFloor
              /\ ep[e].LatencyMs # BaselineLatency

\* C17: for two healthy endpoints of equal score with latencies of 0 ms and
\* 62 ms the weight Select computes for the first is log2(62 + 2) /
\* log2(0 + 2) = 6 times the weight of the second (here: between 5.9 and
\* 6.1 times, the multipliers being rounded to thousandths).
LatencyRatioIsSix ==
    \A r \in Requests :
        req[r].pc = "draw" =>
            \A i, j \in 1..Len(req[r].candidates) :
                LET a == ep[req[r].candidates[i]]
                    b == ep[req[r].candidates[j]]
                IN  (a.Score = b.Score /\ a.LatencyMs = 0 /\ b.LatencyMs = 62) =>
                        /\ 59 * req[r].weights[j] <= 10 * req[r].weights[i]
                        /\ 10 * req[r].weights[i] <= 61 * req[r].weights[j]

\* at equal latency the weights of two candidates are in the ratio of their
\* scores
ProportionalToScores ==
    \A r \in Requests :
        req[r].pc = "draw" =>
            \A i, j \in 1..Len(req[r].candidates) :
                LET a == ep[req[r].candidates[i]]
                    b == ep[req[r].candidates[j]]
                IN  a.LatencyMs = b.LatencyMs =>
                        req[r].weights[i] * b.Score = req[r].weights[j] * a.Score

\* C18: the weight Select computes for a candidate is score * 1 /
\* log2(latency + 2) (to the rounding of the multiplier, half a thousandth),
\* so at equal latency the weights are in the ratio of the scores, 4:1 for
\* the scores 0.8 and 0.2.
WeightIsScoreOverLog2 ==
    /\ \A r \in Requests :
          req[r].pc = "draw" =>
              \A i \in 1..Len(req[r].candidates) :
                  LET a == ep[req[r].candidates[i]]
                      l == Log2Milli(a.LatencyMs + 2)
                      d == req[r].weights[i] * l - a.Score * 1000000
                  IN  2 * d <= a.Score * l /\ -2 * d <= a.Score * l
    /\ ProportionalToScores

\* C19: a failed probe applied to an unhealthy endpoint adds exactly 1 to
\* ConsecutiveFails and leaves IsHealthy (false), Score and LatencyMs as they
\* were.
FailedProbeOnUnhealthyCounts ==
    [][\A e \in Endpoints :
          (ProbeApplied(e) /\ ProbeFailed(probe[e].res) /\ ~ep[e].IsHealthy) =>
              /\ ep'[e].ConsecutiveFails = ep[e].ConsecutiveFails + 1
              /\ ~ep'[e].IsHealthy
              /\ ep'[e].Score = ep[e].Score
              /\ ep'[e].LatencyMs = ep[e].LatencyMs
      ]_vars

\* an unhealthy endpoint, whose score and latency a request has changed, has
\* failed one probe more than the threshold
CountedBeyondThreshold ==
    \E e \in Endpoints :
        /\ ~ep[e].IsHealthy
        /\ probe[e].pc = "done"
        /\ ep[e].ConsecutiveFails = cfg.HealthCheckFailures + 1
        /\ ep[e].Score # BaselineScore
        /\ ep[e].LatencyMs # BaselineLatency

\* C20: LatencyMs of an endpoint is 50 until an UpdateScore is applied to it,
\* and then the duration of the UpdateScore applied last: every UpdateScore
\* overwrites it with its duration and no other step, a probe application
\* included, changes it.
LatencyIsLastDuration ==
    /\ \A e \in Endpoints : ep[e].LatencyMs = BaselineLatency
    /\ [][\A e \in Endpoints :
             IF \E r \in Requests : ScoreUpdated(r) /\ req[r].target = e
             THEN \E r \in Requests :
                      /\ ScoreUpdated(r) /\ req[r].target = e
                      /\ ep'[e].LatencyMs = req[r].duration
             ELSE ep'[e].LatencyMs = ep[e].LatencyMs
         ]_vars

\* one request has left 62 ms on an endpoint, and the UpdateScore of another,
\* which took less than a millisecond, is about to write the record
OverwritingLatency ==
    \E r1, r2 \in Requests :
        /\ req[r1].pc = "done"
        /\ req[r2].pc = "updateCS"
        /\ req[r2].duration = 0
        /\ ep[req[r2].target].LatencyMs = 62

----------------------------------------------------------------------------
(* The outcome a request reports *)

\* C21: the request path reports success = false to UpdateScore exactly when
\* the backend answered with a status of 500 or more or the transport failed
\* (timeout included); every status below 500, a 4xx included, is reported
\* as success = true, and the score moves by the outcome so reported
FailureIsServerErrorOrTransport ==
    [][\A r \in Requests :
          ScoreUpdated(r) =>
              LET q == req[r]
                  failure == q.res.err \/ q.res.StatusCode >= 500
              IN  /\ q.success = ~failure
                  /\ (~q.res.err /\ q.res.StatusCode \in 400..499) => q.success
                  /\ ep'[q.target].Score =
                        ClampScore(EWMA(ep[q.target].Score, ~failure,
                                        cfg.EWMAAlpha))]_vars

\* UpdateScore has been called with success = true for a 404 of the backend,
\* on an endpoint still at the baseline score
ClientErrorReportedAsSuccess ==
    \E r \in Requests :
        /\ req[r].pc = "updateCS"
        /\ ~req[r].res.err
        /\ req[r].res.StatusCode = 404
        /\ req[r].success
        /\ ep[req[r].target].Score = BaselineScore

----------------------------------------------------------------------------
(* Configuration *)

\* C22: malformed configuration is rejected at construction: no endpoint of
\* the pool comes from an invalid address (one NewEndpoint finds no host
\* in), so none takes part in selection or probing, and no score update
\* runs with an alpha outside (0, 1]
MalformedConfigRejected ==
    /\ \A e \in Endpoints : EndpointURL(cfg.BackendAddresses[e]).Host # ""
    /\ \A r \in Requests :
          req[r].pc = "updateCS" => cfg.EWMAAlpha \in 1..10

----------------------------------------------------------------------------
(* Health flag and failure counter *)

\* C23: with a threshold of at least 1, whenever no probe application is
\* inside its critical section on an endpoint, the endpoint is healthy if
\* and only if its consecutive failures are fewer than the threshold; the
\* count is never negative
HealthyIffBelowThreshold ==
    /\ cfg.HealthCheckFailures >= 1
    /\ \A e \in Endpoints :
          /\ ep[e].ConsecutiveFails >= 0
          /\ probe[e].pc # "apply" =>
                (ep[e].IsHealthy <=>
                    ep[e].ConsecutiveFails < cfg.HealthCheckFailures)

\* a probe has failed on an endpoint that stays healthy, one failure short
\* of the threshold
HealthyOneShortOfThreshold ==
    \E e \in Endpoints :
        /\ probe[e].pc = "done"
        /\ ep[e].IsHealthy
        /\ ep[e].ConsecutiveFails > 0
        /\ ep[e].ConsecutiveFails = cfg.HealthCheckFailures - 1

----------------------------------------------------------------------------
(* Locking *)

\* the endpoint mutexes goroutine t holds
LocksOf(t) == {e \in Endpoints : mutex[e] = t}

\* C24: the locking cannot deadlock.  No goroutine holds two endpoint
\* mutexes at once; the pool lock is only read-locked, by the Select calls
\* under way, and RLock() never waits; a goroutine that holds an endpoint
\* mutex is inside that critical section and its next step, the Unlock(),
\* waits for nothing.  Under fair scheduling every Select call, every
\* UpdateScore call and every probe application terminates: no goroutine
\* stays inside Select, inside UpdateScore or its Lock(), or inside a probe
\* from some instant on for ever.
LockingCannotDeadlock ==
    /\ [](\A r \in Requests :
            /\ Cardinality(LocksOf(ReqId(r))) <= 1
            /\ LocksOf(ReqId(r)) = {HeldBy(r)} \ {0}
            /\ HeldBy(r) # 0 =>
                  \/ ENABLED FilterUnlock(r) \/ ENABLED WeighUnlock(r)
                  \/ ENABLED RouteUnlock(r) \/ ENABLED UpdateScoreUnlock(r))
    /\ [](\A e \in Endpoints :
            /\ LocksOf(ProbeId(e)) = IF probe[e].pc = "apply" THEN {e} ELSE {}
            /\ probe[e].pc = "apply" => ENABLED ProbeApply(e))
    /\ [](rlock = Cardinality({r \in Requests : req[r].pc \in SelectPcs}))
    /\ \A r \in 1..MaxRequests :
          /\ []<>(r \in Requests => req[r].pc \notin SelectPcs)
          /\ []<>(r \in Requests => req[r].pc \notin {"forward", "updateCS"})
    /\ \A e \in 1..MaxBackends :
          []<>(e \in Endpoints => probe[e].pc \notin {"get", "apply"})

\* a Select call and the probe of an endpoint wait for the mutex that the
\* UpdateScore of another request holds
WaitingForUpdateScore ==
    \E e \in Endpoints, r1, r2 \in Requests :
        /\ req[r1].pc = "updateCS" /\ req[r1].target = e
        /\ mutex[e] = ReqId(r1)
        /\ req[r2].pc = "filter" /\ req[r2].i = e
        /\ probe[e].pc = "get"

----------------------------------------------------------------------------
(* What Select returns *)

\* C25: Select never returns an endpoint that was marked unhealthy during the
\* whole call.  An endpoint enters the candidates only in the filter's
\* critical section on it and only if it is marked healthy there; the
\* candidates at the end of the filter were each healthy at some instant of
\* the filter; the endpoint returned is one of the candidates.
ReturnedWasHealthyWhenInspected ==
    [][\A r \in Requests :
          LET q == req[r]
          IN  /\ (req'[r].pc \in SelectPcs /\ req'[r].candidates # q.candidates) =>
                    /\ q.pc = "filterCS"
                    /\ mutex[q.i] = ReqId(r)
                    /\ ep[q.i].IsHealthy
                    /\ req'[r].candidates = Append(q.candidates, q.i)
              /\ FilterEnded(r) =>
                    Range(req'[r].candidates) \subseteq UNION q.hsets
              /\ Drawn(r) => req'[r].target \in Range(q.candidates)
      ]_vars

\* Select has returned an endpoint that a probe has marked unhealthy since
\* the filter inspected it
ReturnedHasTurnedUnhealthy ==
    \E r \in Requests :
        /\ req[r].pc = "route"
        /\ ~ep[req[r].target].IsHealthy

----------------------------------------------------------------------------
(* Recovery *)

\* C26: an unhealthy endpoint is probed in every cycle like any other, and
\* one successful probe makes it healthy.  When the monitor is scheduled
\* fairly, an endpoint whose probes succeed from some instant on is healthy
\* from some instant on and for ever, however its requests turn out.
SucceedingEndpointRecovers ==
    /\ [][(hc = "loop" /\ hc' = "wait") =>
              \A e \in Endpoints : probe'[e].pc = "get"]_vars
    /\ [][\A e \in Endpoints :
              (ProbeApplied(e) /\ ~ProbeFailed(probe[e].res)) =>
                  ep'[e].IsHealthy]_vars
    /\ \A e \in 1..MaxBackends :
          <>[](e \in Endpoints =>
                  (probe[e].pc = "apply" => ~ProbeFailed(probe[e].res)))
              => <>[](e \in Endpoints => ep[e].IsHealthy)

\* the probe of an endpoint that is unhealthy, past the threshold, has come
\* back with a 200 and is about to be applied, while a request to that
\* endpoint is outstanding
SuccessInHandForUnhealthy ==
    \E e \in Endpoints, r \in Requests :
        /\ probe[e].pc = "apply"
        /\ ~ProbeFailed(probe[e].res)
        /\ ~ep[e].IsHealthy
        /\ ep[e].ConsecutiveFails > cfg.HealthCheckFailures
        /\ req[r].pc = "forward" /\ req[r].target = e

----------------------------------------------------------------------------
(* Direction of a score update *)

----------------------------------------------------------------------------
(* What a probe application leaves alone *)

\* C28: a successful probe applied to an endpoint that is healthy sets its
\* consecutive failures to 0 and leaves IsHealthy (true), the score and the
\* latency as they are; a probe application changes the score only when it
\* takes the endpoint from unhealthy to healthy.
SuccessOnHealthyKeepsScore ==
    [][\A e \in Endpoints :
          ProbeApplied(e) =>
              /\ (~ProbeFailed(probe[e].res) /\ ep[e].IsHealthy) =>
                    /\ ep'[e].ConsecutiveFails = 0
                    /\ ep'[e].IsHealthy
                    /\ ep'[e].Score = ep[e].Score
                    /\ ep'[e].LatencyMs = ep[e].LatencyMs
              /\ ep'[e].Score # ep[e].Score =>
                    ~ep[e].IsHealthy /\ ep'[e].IsHealthy
      ]_vars

\* a 200 is about to be applied to a healthy endpoint that has failures
\* counted and whose score and latency requests have moved off the baseline
SuccessOnHealthyWithHistory ==
    \E e \in Endpoints :
        /\ probe[e].pc = "apply"
        /\ ~ProbeFailed(probe[e].res)
        /\ ep[e].IsHealthy
        /\ ep[e].ConsecutiveFails > 0
        /\ ep[e].Score # BaselineScore
        /\ ep[e].LatencyMs # BaselineLatency

----------------------------------------------------------------------------
(* Probe failures *)

\* C29: a probe is applied as a failure exactly when its GET ended in a
\* transport error (timeout included) or in a status other than 200, as a
\* success otherwise.  A failed probe ends like a successful one: nothing
\* reaches the monitor loop or the request path, and all it changes is the
\* failure counter, by 1, and possibly IsHealthy, from true to false.
ProbeFailureIsAbsorbed ==
    [][\A e \in Endpoints :
          ProbeApplied(e) =>
              LET res == probe[e].res
                  failure == res.err \/ res.StatusCode # 200
              IN  /\ failure =>
                        /\ ep'[e].ConsecutiveFails = ep[e].ConsecutiveFails + 1
                        /\ ep'[e].IsHealthy => ep[e].IsHealthy
                        /\ ep'[e].Score = ep[e].Score
                        /\ ep'[e].LatencyMs = ep[e].LatencyMs
                  /\ ~failure =>
                        ep'[e].IsHealthy /\ ep'[e].ConsecutiveFails = 0
                  /\ probe'[e] = [NewProbe EXCEPT !.pc = "done"]
                  /\ mutex'[e] = NoHolder
                  /\ hc' = hc /\ rlock' = rlock /\ cfg' = cfg
                  /\ \A x \in Endpoints \ {e} :
                        ep'[x] = ep[x] /\ probe'[x] = probe[x] /\ mutex'[x] = mutex[x]
                  /\ \A r \in Requests :
                        req'[r] = [req[r] EXCEPT !.fixed = req'[r].fixed,
                                                 !.hsets = req'[r].hsets]
      ]_vars

\* a 204 is about to be applied to a healthy endpoint one failure short of
\* the threshold, while a request forwarded to the endpoint is outstanding
NoContentCountsAsFailure ==
    \E e \in Endpoints, r \in Requests :
        /\ probe[e].pc = "apply"
        /\ ~probe[e].res.err /\ probe[e].res.StatusCode = 204
        /\ ep[e].IsHealthy
        /\ ep[e].ConsecutiveFails = cfg.HealthCheckFailures - 1
        /\ req[r].pc = "forward" /\ req[r].target = e
====
